---- MODULE Spec2Model ----
(***************************************************************************)
(* Model of the pipeline orchestrator (AgentOrchestrator) and of the agent  *)
(* base class (BaseAgent.process) together with the stage outcomes of the   *)
(* three agents (DataLoaderAgent, DataStructuringAgent, GraphModelingAgent).*)
(*                                                                         *)
(* JavaScript runs every callback to completion, so one action is one       *)
(* run-to-completion segment: the code between two suspension points        *)
(* (await of an agent's execute, a setImmediate callback), or the call of   *)
(* the observers of one orchestrator event.                                 *)
(***************************************************************************)
EXTENDS Integers, Sequences, FiniteSets, TLC

\* ---------------------------------------------------------------- bounds
MaxJobs == 2
MaxBatch == 2

\* ------------------------------------------------------------- constants
NoJob == 0
IdBase == 100

StepNames == <<"dataLoading", "dataStructuring", "graphModeling">>

AgentNames == {"dataLoader", "dataStructuring", "graphModeling"}

AgentOf(stepName) ==
    CASE stepName = "dataLoading" -> "dataLoader"
      [] stepName = "dataStructuring" -> "dataStructuring"
      [] stepName = "graphModeling" -> "graphModeling"

\* ---------------------------------------------------------------- inputs
\* A dataset as the loader returns it: rows records; cols tells whether the
\* first record has keys (the column set is taken from the first record).
Datasets ==
    { [rows |-> 0, cols |-> FALSE],     \* no records
      [rows |-> 2, cols |-> FALSE],     \* records without keys: [{}, {}]
      [rows |-> 2, cols |-> TRUE] }     \* a table

\* badSource: a dataSource whose source type the loader does not support;
\* data: a source that yields a dataset.
JobConfigs ==
    { [kind |-> "badSource", ds |-> [rows |-> 0, cols |-> FALSE]] }
    \cup { [kind |-> "data", ds |-> d] : d \in Datasets }

NoResult == [kind |-> "none"]
NoError == "none"

VARIABLES
    agentsReady,    \* this.agents has been filled by initialize()
    demoMode,       \* GraphModelingAgent.demoMode: "unset", "demo", "connected"
    agentStatus,    \* BaseAgent.status of each agent
    currentJob,     \* AgentOrchestrator.currentJob (id of the job, or NoJob)
    jobHistory,     \* AgentOrchestrator.jobHistory (sequence of Job records)
    proc,           \* per job: the processData invocation (pc, locals, caller)
    nextId,         \* number of ids handed out by generateJobId
    pending,        \* setImmediate callbacks queued by processDataAsync
    subs,           \* what each processDataAsync call returned
    batch,          \* the processBatch invocation
    query,          \* the last getJobStatus call and its outcome
    clearExisting,  \* GraphModelingAgent.config.clearExisting
    store,          \* the graph store: what the statements so far have left
    runs,           \* the GraphModelingAgent.execute invocations
    calc,           \* the last pure computation: its input and its result
    init            \* AgentOrchestrator.initialize: its agents' initialize() and its outcome

\* The variables of the graph loader's store operations and of the pure
\* computations (column profiling, relationship detection, compilation).
otherVars == <<clearExisting, store, runs, calc, init>>

vars == <<agentsReady, demoMode, agentStatus, currentJob, jobHistory, proc,
          nextId, pending, subs, batch, query, otherVars>>

orchState == <<agentsReady, demoMode, agentStatus, currentJob, jobHistory,
               proc, nextId, pending, subs, batch, otherVars>>

\* ------------------------------------------------------- stage outcomes
Ok(v) == [ok |-> TRUE, value |-> v, error |-> NoError]
Throw(e) == [ok |-> FALSE, value |-> NoResult, error |-> e]

Min(a, b) == IF a < b THEN a ELSE b
Max(a, b) == IF a > b THEN a ELSE b

\* DataLoaderAgent.execute: an unsupported source throws, otherwise the
\* parsed records and their metadata are returned.
DataLoaderExecute(source) ==
    IF source.kind = "badSource"
    THEN Throw("Unsupported source type")
    ELSE Ok([kind |-> "load", data |-> source.ds,
             rowCount |-> source.ds.rows])

\* Variant: the empty-input check is missing.
DataStructuringExecute_NoCheck(data) ==
    Ok([kind |-> "structure", originalData |-> data.data,
        structuredRows |-> data.data.rows,
        columns |-> data.data.cols])

\* DataStructuringAgent.execute: only an empty (or absent) record list is
\* rejected; records without keys are analysed, cleaned and structured.
DataStructuringExecute(data) ==
    IF data.data.rows = 0
    THEN Throw("No data provided for structuring")
    ELSE Ok([kind |-> "structure", originalData |-> data.data,
             structuredRows |-> data.data.rows,
             columns |-> data.data.cols])

\* Variant: every record becomes a node of the preview.
generateDemoGraphData_NoCap(structuredRows) ==
    LET edges == [i \in 1..Min(5, structuredRows - 1) |-> [from |-> i - 1, to |-> i]]
    IN  [kind |-> "graph", demoMode |-> TRUE, edges |-> edges,
         totalNodes |-> structuredRows, totalEdges |-> Len(edges)]

\* GraphModelingAgent.generateDemoGraphData: the first 10 records as nodes
\* and up to 5 sequential edges.
generateDemoGraphData(structuredRows) ==
    LET nodes == Min(10, structuredRows)
        edges == [i \in 1..Min(5, nodes - 1) |-> [from |-> i - 1, to |-> i]]
    IN  [kind |-> "graph", demoMode |-> TRUE, edges |-> edges,
         totalNodes |-> nodes, totalEdges |-> Len(edges)]

\* Variant: a store failure of the connected path falls back to the preview.
GraphModelingExecute_Fallback(data, mode, storeOk) ==
    IF data.structuredRows = 0
    THEN Throw("No structured data provided for graph modeling")
    ELSE IF mode = "demo" \/ ~storeOk
    THEN Ok(generateDemoGraphData(data.structuredRows))
    ELSE Ok([kind |-> "graph", demoMode |-> FALSE, edges |-> <<>>,
             totalNodes |-> data.structuredRows, totalEdges |-> 0])

\* GraphModelingAgent.execute: storeOk is whether every fatal store
\* operation of the connected path succeeds.
GraphModelingExecute(data, mode, storeOk) ==
    IF data.structuredRows = 0
    THEN Throw("No structured data provided for graph modeling")
    ELSE IF mode = "demo"
    THEN Ok(generateDemoGraphData(data.structuredRows))
    ELSE IF storeOk
    THEN Ok([kind |-> "graph", demoMode |-> FALSE, edges |-> <<>>,
             totalNodes |-> data.structuredRows, totalEdges |-> 0])
    ELSE Throw("StoreError")

Execute(stepName, input, mode, storeOk) ==
    CASE stepName = "dataLoading" -> DataLoaderExecute(input)
      [] stepName = "dataStructuring" -> DataStructuringExecute(input)
      [] stepName = "graphModeling" -> GraphModelingExecute(input, mode, storeOk)

\* ------------------------------------------------------------ job records
NewJob(id, cfg) ==
    [id |-> id, config |-> cfg, status |-> "started", ended |-> FALSE,
     steps |-> <<>>, result |-> NoResult, error |-> NoError]

NewStep(name) ==
    [name |-> name, status |-> "started", ended |-> FALSE,
     result |-> NoResult, error |-> NoError]

PushStep(job, name) == [job EXCEPT !.steps = Append(@, NewStep(name))]

\* Variant: the completion is written to the first step, not the last one.
CompleteStep_FirstStep(job, res) ==
    [job EXCEPT !.steps[1] =
        [@ EXCEPT !.status = "completed", !.ended = TRUE, !.result = res]]

\* job.steps[job.steps.length - 1] := completed, endTime, result
CompleteStep(job, res) ==
    [job EXCEPT !.steps[Len(job.steps)] =
        [@ EXCEPT !.status = "completed", !.ended = TRUE, !.result = res]]

\* Variant: the catch block fails the job but leaves the running step alone.
CatchBlock_JobOnly(job, err) ==
    [job EXCEPT !.status = "failed", !.ended = TRUE, !.error = err]

\* The catch block of processData, up to the emit of jobFailed.
CatchBlock(job, err) ==
    LET j1 == [job EXCEPT !.status = "failed", !.ended = TRUE, !.error = err]
        n == Len(job.steps)
    IN  IF n > 0 /\ job.steps[n].status = "started"
        THEN [j1 EXCEPT !.steps[n] =
                 [@ EXCEPT !.status = "failed", !.ended = TRUE, !.error = err]]
        ELSE j1

\* The success tail of processData, up to the emit of jobCompleted.
CompleteJob(job, p) ==
    [job EXCEPT !.status = "completed", !.ended = TRUE,
                !.result = [kind |-> "pipeline",
                            dataLoading |-> p.loadResult,
                            dataStructuring |-> p.structureResult,
                            graphModeling |-> p.graphResult]]

NewProc ==
    [pc |-> "created", err |-> NoError, errFrom |-> "none",
     outcome |-> "pending", returned |-> NoResult, thrown |-> NoError,
     loadResult |-> NoResult, structureResult |-> NoResult,
     graphResult |-> NoResult, inputs |-> <<>>, events |-> <<>>]

\* this.emit(event, ...) of the orchestrator for the job of invocation p:
\* the event reaches the observers (and is recorded) before any of them
\* can throw.
Emit(p, event) == [p EXCEPT !.events = Append(@, event)]

\* Variant: the listener forwards only the statuses completed and error.
Forward_NotProcessing(p, agent, status) ==
    IF status = "processing" THEN p
    ELSE Emit(p, [ev |-> "agentStatusChange", agent |-> agent, status |-> status])

\* The statusChange listener of setupAgentListeners: an agent's status
\* change is emitted again as agentStatusChange.
Forward(p, agent, status) ==
    Emit(p, [ev |-> "agentStatusChange", agent |-> agent, status |-> status])

\* An error reaches the catch block of processData. from tells where it
\* was thrown: "call" (evaluating the call of agent.process), "process" (the
\* awaited agent.process rejected), "observer" (an emit of the orchestrator).
Thrown(job, p, ast, err, from) ==
    [job |-> CatchBlock(job, err),
     proc |-> [p EXCEPT !.pc = "emitJobFailed", !.err = err,
                        !.errFrom = from],
     ast |-> ast]

\* Pushes the step record and calls agent.process(input) up to its first
\* suspension: BaseAgent.process sets the status and emits statusChange
\* (lt: an observer of that event throws) before it awaits execute.
BeginStage(job, p, ast, ready, name, input, lt) ==
    LET j1 == PushStep(job, name)
        a == AgentOf(name)
    IN  IF ~ready
        THEN Thrown(j1, p, ast, "TypeError", "call")
        ELSE LET p1 == Forward([p EXCEPT !.inputs = Append(@, input)],
                                a, "processing")
                 ast1 == [ast EXCEPT ![a] = "processing"]
             IN  IF lt
                 THEN Thrown(j1, p1, ast1, "ListenerError", "process")
                 ELSE [job |-> j1, proc |-> [p1 EXCEPT !.pc = name],
                       ast |-> ast1]

SetStageResult(p, name, res) ==
    CASE name = "dataLoading" -> [p EXCEPT !.loadResult = res]
      [] name = "dataStructuring" -> [p EXCEPT !.structureResult = res]
      [] name = "graphModeling" -> [p EXCEPT !.graphResult = res]

\* The rest of BaseAgent.process once execute has settled with out, and the
\* continuation of processData after its await.
EndStage(job, p, ast, name, out, lt) ==
    LET a == AgentOf(name)
        done == IF out.ok THEN Forward(p, a, "completed") ELSE p
    IN  IF out.ok /\ ~lt
        THEN [job |-> CompleteStep(job, out.value),
              proc |-> [SetStageResult(done, name, out.value)
                            EXCEPT !.pc = "emitStepCompleted"],
              ast |-> [ast EXCEPT ![a] = "completed"]]
        ELSE Thrown(job, Forward(done, a, "error"), [ast EXCEPT ![a] = "error"],
                    IF lt THEN "ListenerError" ELSE out.error, "process")
\* ------------------------------------------------------------------ Init
NoQuery == [id |-> NoJob, outcome |-> "none", status |-> "none", nsteps |-> 0]

IdleBatch ==
    [state |-> "idle", configs |-> <<>>, i |-> 0, awaiting |-> 0,
     jobs |-> <<>>,
     results |-> <<>>, errors |-> <<>>,
     summary |-> [total |-> 0, successful |-> 0, failed |-> 0]]

\* An empty graph store, and no pure computation made yet.
EmptyStore == [nodes |-> 0, edges |-> 0, schema |-> 0]

NoCalc == [fn |-> "none"]

\* The orchestrator right after its construction.
NoInit ==
    [dataLoader |-> "none", dataStructuring |-> "none", state |-> "idle",
     emitted |-> FALSE]

Constructed ==
    /\ init = NoInit
    /\ agentsReady = FALSE
    /\ demoMode = "unset"
    /\ agentStatus = [a \in AgentNames |-> "idle"]
    /\ currentJob = NoJob
    /\ jobHistory = <<>>
    /\ proc = <<>>
    /\ nextId = 0
    /\ pending = <<>>
    /\ subs = <<>>
    /\ batch = IdleBatch
    /\ query = NoQuery

Init ==
    /\ Constructed
    /\ clearExisting = FALSE
    /\ store = EmptyStore
    /\ runs = <<>>
    /\ calc = NoCalc

\* -------------------------------------------------------------- actions
\* AgentOrchestrator.initialize up to the first suspension: the agents are
\* constructed and each initialize() sets its status.
Initialize ==
    /\ ~agentsReady
    /\ agentsReady' = TRUE
    /\ agentStatus' = [a \in AgentNames |-> "initializing"]
    /\ init' = [init EXCEPT !.dataLoader = "pending",
                            !.dataStructuring = "pending", !.state = "awaiting"]
    /\ UNCHANGED <<demoMode, currentJob, jobHistory, proc, nextId, pending,
                   subs, batch, query, clearExisting, store, runs, calc>>

\* The initialize() of the DataLoader or of the DataStructuring agent
\* settles; a rejection is logged and thrown again by the catch handler.
AgentInitializeSettles(agent, ok) ==
    /\ init[agent] = "pending"
    /\ init' = [init EXCEPT ![agent] = IF ok THEN "fulfilled" ELSE "rejected"]
    /\ UNCHANGED <<agentsReady, demoMode, agentStatus, currentJob, jobHistory,
                   proc, nextId, pending, subs, batch, query, clearExisting,
                   store, runs, calc>>

\* await Promise.allSettled(initPromises) continues once the three promises
\* have settled, whatever their outcome; 'initialized' is emitted and
\* initialize resolves.
InitializeSettles ==
    /\ init.state = "awaiting"
    /\ "pending" \notin {init.dataLoader, init.dataStructuring}
    /\ demoMode # "unset"
    /\ init' = [init EXCEPT !.state = "resolved", !.emitted = TRUE]
    /\ UNCHANGED <<agentsReady, demoMode, agentStatus, currentJob, jobHistory,
                   proc, nextId, pending, subs, batch, query, clearExisting,
                   store, runs, calc>>

\* GraphModelingAgent.initialize after verifyConnectivity has settled.
ConnectivityCheck(reachable) ==
    /\ agentsReady
    /\ demoMode = "unset"
    /\ demoMode' = IF reachable THEN "connected" ELSE "demo"
    /\ UNCHANGED <<agentsReady, agentStatus, currentJob, jobHistory, proc,
                   nextId, pending, subs, batch, query, otherVars>>

generateJobId(n) == IdBase + n + 1

\* Jobs that exist or that queued callbacks and the running batch will create.
Committed ==
    Len(jobHistory) + Len(pending)
      + (IF batch.state = "running" THEN Len(batch.configs) - batch.i - 1 ELSE 0)

\* processData from its entry to its first suspension: the job record is
\* created, made the current job and appended to the history, then the
\* first stage is begun.
StartJob(cfg, lt) ==
    LET id == generateJobId(nextId)
        st == BeginStage(NewJob(id, cfg), NewProc, agentStatus,
                         agentsReady, "dataLoading", cfg, lt)
    IN  /\ currentJob' = id
        /\ jobHistory' = Append(jobHistory, st.job)
        /\ proc' = Append(proc, st.proc)
        /\ agentStatus' = st.ast
        /\ nextId' = nextId + 1

\* A caller invokes processData(cfg) directly.
ProcessData(cfg, lt) ==
    /\ Committed < MaxJobs
    /\ StartJob(cfg, lt)
    /\ UNCHANGED <<agentsReady, demoMode, pending, subs, batch, query, otherVars>>

\* processDataAsync: the run is deferred with setImmediate and the id of
\* this.currentJob (undefined when there is none) is returned.
ProcessDataAsync(cfg) ==
    /\ Committed < MaxJobs
    /\ pending' = Append(pending, [config |-> cfg, sub |-> Len(subs) + 1])
    /\ subs' = Append(subs, [returned |-> currentJob, job |-> NoJob])
    /\ UNCHANGED <<agentsReady, demoMode, agentStatus, currentJob, jobHistory,
                   proc, nextId, batch, query, otherVars>>

\* The setImmediate callback of the oldest pending submission runs.
RunImmediate(lt) ==
    /\ pending # <<>>
    /\ LET h == Head(pending)
       IN  /\ StartJob(h.config, lt)
           /\ subs' = [subs EXCEPT ![h.sub].job = generateJobId(nextId)]
    /\ pending' = Tail(pending)
    /\ UNCHANGED <<agentsReady, demoMode, batch, query, otherVars>>

\* The awaited agent.execute of job i settles; BaseAgent.process finishes
\* and processData continues up to the emit of stepCompleted (or fails).
ExecuteSettles(i, storeOk, lt) ==
    /\ proc[i].pc \in {"dataLoading", "dataStructuring", "graphModeling"}
    /\ LET name == proc[i].pc
           input == proc[i].inputs[Len(proc[i].inputs)]
           out == Execute(name, input, demoMode, storeOk)
           st == EndStage(jobHistory[i], proc[i], agentStatus, name, out, lt)
       IN  /\ jobHistory' = [jobHistory EXCEPT ![i] = st.job]
           /\ proc' = [proc EXCEPT ![i] = st.proc]
           /\ agentStatus' = st.ast
    /\ UNCHANGED <<agentsReady, demoMode, currentJob, nextId, pending, subs,
                   batch, query, otherVars>>

StageResult(p, name) ==
    CASE name = "dataLoading" -> p.loadResult
      [] name = "dataStructuring" -> p.structureResult
      [] name = "graphModeling" -> p.graphResult

\* The observers of stepCompleted run (lt: one throws); processData then
\* begins the next stage (lt2: an observer of its statusChange throws) or,
\* after the third stage, marks the job completed.
EmitStepCompleted(i, lt, lt2) ==
    /\ proc[i].pc = "emitStepCompleted"
    /\ LET job == jobHistory[i]
           k == Len(job.steps)
           p == Emit(proc[i], [ev |-> "stepCompleted", step |-> StepNames[k]])
           st == IF lt
                 THEN Thrown(job, p, agentStatus, "ListenerError",
                             "observer")
                 ELSE IF k < Len(StepNames)
                 THEN BeginStage(job, p, agentStatus, agentsReady,
                                 StepNames[k + 1],
                                 StageResult(p, StepNames[k]), lt2)
                 ELSE [job |-> CompleteJob(job, p),
                       proc |-> [p EXCEPT !.pc = "emitJobCompleted"],
                       ast |-> agentStatus]
       IN  /\ jobHistory' = [jobHistory EXCEPT ![i] = st.job]
           /\ proc' = [proc EXCEPT ![i] = st.proc]
           /\ agentStatus' = st.ast
    /\ UNCHANGED <<agentsReady, demoMode, currentJob, nextId, pending, subs,
                   batch, query, otherVars>>

\* The observers of jobCompleted run; processData returns job.result, or an
\* observer throws and the catch block runs.
EmitJobCompleted(i, lt) ==
    /\ proc[i].pc = "emitJobCompleted"
    /\ LET p == Emit(proc[i], [ev |-> "jobCompleted"])
           st == IF lt
                 THEN Thrown(jobHistory[i], p, agentStatus,
                             "ListenerError", "observer")
                 ELSE [job |-> jobHistory[i],
                       proc |-> [p EXCEPT !.pc = "done",
                                                !.outcome = "result",
                                                !.returned = jobHistory[i].result],
                       ast |-> agentStatus]
       IN  /\ jobHistory' = [jobHistory EXCEPT ![i] = st.job]
           /\ proc' = [proc EXCEPT ![i] = st.proc]
    /\ UNCHANGED <<agentsReady, demoMode, agentStatus, currentJob, nextId,
                   pending, subs, batch, query, otherVars>>

\* Variant: the catch block swallows the error and processData returns.
EmitJobFailed_Swallow(i, lt) ==
    /\ proc[i].pc = "emitJobFailed"
    /\ proc' = [proc EXCEPT ![i] =
                  [@ EXCEPT !.pc = "done", !.outcome = "result"]]
    /\ UNCHANGED <<agentsReady, demoMode, agentStatus, currentJob, jobHistory,
                   nextId, pending, subs, batch, query, otherVars>>

\* The observers of jobFailed run; processData rethrows the error (or the
\* error of a throwing observer propagates instead).
EmitJobFailed(i, lt) ==
    /\ proc[i].pc = "emitJobFailed"
    /\ proc' = [proc EXCEPT ![i] =
                  [Emit(proc[i], [ev |-> "jobFailed"])
                      EXCEPT !.pc = "done", !.outcome = "error",
                             !.thrown = IF lt THEN "ListenerError"
                                        ELSE proc[i].err]]
    /\ UNCHANGED <<agentsReady, demoMode, agentStatus, currentJob, jobHistory,
                   nextId, pending, subs, batch, query, otherVars>>

\* processBatch: an empty list returns at once, otherwise the job for the
\* first config is started and awaited.
ProcessBatch(cfgs, lt) ==
    /\ batch.state = "idle"
    /\ Committed + Len(cfgs) <= MaxJobs
    /\ IF Len(cfgs) = 0
       THEN /\ batch' = [batch EXCEPT !.state = "done"]
            /\ UNCHANGED <<agentStatus, currentJob, jobHistory, proc, nextId>>
       ELSE /\ StartJob(cfgs[1], lt)
            /\ batch' = [batch EXCEPT !.state = "running", !.configs = cfgs,
                                      !.awaiting = Len(jobHistory) + 1,
                                      !.jobs = <<Len(jobHistory) + 1>>]
    /\ UNCHANGED <<agentsReady, demoMode, pending, subs, query, otherVars>>

\* Variant: the loop has no try/catch, so the error of a failed job leaves
\* processBatch at once.
BatchResume_Rethrow(lt) ==
    /\ batch.state = "running"
    /\ proc[batch.awaiting].pc = "done"
    /\ LET p == proc[batch.awaiting]
           res == Append(batch.results,
                         [index |-> batch.i, result |-> p.returned])
           n == Len(batch.configs)
       IN  IF p.outcome = "error"
           THEN /\ batch' = [batch EXCEPT !.state = "thrown"]
                /\ UNCHANGED <<agentStatus, currentJob, jobHistory, proc, nextId>>
           ELSE IF batch.i + 1 < n
           THEN /\ StartJob(batch.configs[batch.i + 2], lt)
                /\ batch' = [batch EXCEPT !.i = @ + 1, !.results = res,
                                          !.awaiting = Len(jobHistory) + 1,
                                          !.jobs = Append(@, Len(jobHistory) + 1)]
           ELSE /\ batch' = [batch EXCEPT !.state = "done", !.i = @ + 1,
                                 !.results = res,
                                 !.summary = [total |-> n,
                                              successful |-> Len(res),
                                              failed |-> 0]]
                /\ UNCHANGED <<agentStatus, currentJob, jobHistory, proc, nextId>>
    /\ UNCHANGED <<agentsReady, demoMode, pending, subs, query, otherVars>>

\* Variant: the loop does not await the job it started (a missing await).
BatchResume_NoAwait(lt) ==
    /\ batch.state = "running"
    /\ batch.i + 1 < Len(batch.configs)
    /\ StartJob(batch.configs[batch.i + 2], lt)
    /\ batch' = [batch EXCEPT !.i = @ + 1,
                              !.awaiting = Len(jobHistory) + 1,
                              !.jobs = Append(@, Len(jobHistory) + 1)]
    /\ UNCHANGED <<agentsReady, demoMode, pending, subs, query, otherVars>>

\* The awaited processData of the batch has settled: its outcome is pushed
\* to results or errors, then the next job is started or the summary built.
BatchResume(lt) ==
    /\ batch.state = "running"
    /\ proc[batch.awaiting].pc = "done"
    /\ LET p == proc[batch.awaiting]
           res == IF p.outcome = "result"
                  THEN Append(batch.results,
                              [index |-> batch.i, result |-> p.returned])
                  ELSE batch.results
           errs == IF p.outcome = "error"
                   THEN Append(batch.errors,
                               [index |-> batch.i, error |-> p.thrown])
                   ELSE batch.errors
           n == Len(batch.configs)
       IN  IF batch.i + 1 < n
           THEN /\ StartJob(batch.configs[batch.i + 2], lt)
                /\ batch' = [batch EXCEPT !.i = @ + 1, !.results = res,
                                          !.errors = errs,
                                          !.awaiting = Len(jobHistory) + 1,
                                          !.jobs = Append(@, Len(jobHistory) + 1)]
           ELSE /\ batch' = [batch EXCEPT !.state = "done", !.i = @ + 1,
                                 !.results = res, !.errors = errs,
                                 !.summary = [total |-> n,
                                              successful |-> Len(res),
                                              failed |-> Len(errs)]]
                /\ UNCHANGED <<agentStatus, currentJob, jobHistory, proc, nextId>>
    /\ UNCHANGED <<agentsReady, demoMode, pending, subs, query, otherVars>>

BatchInputs ==
    UNION { [1..n -> JobConfigs] : n \in 0..MaxBatch }

\* Variant: only jobs that have ended are found.
FindJob_EndedOnly(history, id) ==
    LET hits == { k \in 1..Len(history) :
                    history[k].id = id /\ history[k].ended }
    IN  IF hits = {} THEN 0 ELSE CHOOSE k \in hits : \A m \in hits : k <= m

\* getJobStatus(id): jobHistory.find by id; throws when there is none,
\* otherwise returns a view of the job.
FindJob(history, id) ==
    LET hits == { k \in 1..Len(history) : history[k].id = id }
    IN  IF hits = {} THEN 0 ELSE CHOOSE k \in hits : \A m \in hits : k <= m

GetJobStatus(id) ==
    /\ LET k == FindJob(jobHistory, id)
       IN  query' = IF k = 0
                    THEN [id |-> id, outcome |-> "notFound",
                          status |-> "none", nsteps |-> 0]
                    ELSE [id |-> id, outcome |-> "found",
                          status |-> jobHistory[k].status,
                          nsteps |-> Len(jobHistory[k].steps)]
    /\ UNCHANGED orchState

\* Variant: jobs that have not ended are left out of the summaries.
getJobHistory_EndedOnly(history) ==
    LET RECURSIVE Ended(_)
        Ended(h) ==
            IF h = <<>> THEN <<>>
            ELSE (IF Head(h).ended
                  THEN <<[id |-> Head(h).id, status |-> Head(h).status,
                          ended |-> TRUE, error |-> Head(h).error]>>
                  ELSE <<>>) \o Ended(Tail(h))
    IN  Ended(history)

\* AgentOrchestrator.getJobHistory: this.jobHistory.map(...) to the summary
\* of each job (endTime and duration are there once the job has ended).
getJobHistory(history) ==
    [k \in 1..Len(history) |->
        [id |-> history[k].id, status |-> history[k].status,
         ended |-> history[k].ended, error |-> history[k].error]]

\* A caller invokes getJobHistory().
GetJobHistory ==
    /\ calc' = [fn |-> "getJobHistory", out |-> getJobHistory(jobHistory)]
    /\ UNCHANGED <<agentsReady, demoMode, agentStatus, currentJob, jobHistory,
                   proc, nextId, pending, subs, batch, query, clearExisting,
                   store, runs, init>>

\* The ids asked for: those of the jobs that can exist, one more that no job
\* ever gets, and the undefined a first processDataAsync returns.
QueryIds == { generateJobId(n) : n \in 0..MaxJobs } \cup {NoJob}

\* ------------------------------------------------------- specifications
JobStep ==
    \/ \E i \in 1..Len(jobHistory), ok \in BOOLEAN, lt \in BOOLEAN :
          ExecuteSettles(i, ok, lt)
    \/ \E i \in 1..Len(jobHistory), lt \in BOOLEAN, lt2 \in BOOLEAN :
          EmitStepCompleted(i, lt, lt2)
    \/ \E i \in 1..Len(jobHistory), lt \in BOOLEAN : EmitJobCompleted(i, lt)
    \/ \E i \in 1..Len(jobHistory), lt \in BOOLEAN : EmitJobFailed(i, lt)

Setup ==
    \/ Initialize
    \/ \E r \in BOOLEAN : ConnectivityCheck(r)

\* Direct callers of processData.
Next ==
    \/ Setup
    \/ \E cfg \in JobConfigs, lt \in BOOLEAN : ProcessData(cfg, lt)
    \/ JobStep

Spec == Init /\ [][Next]_vars

\* Submissions through processDataAsync next to direct calls.
NextAsync ==
    \/ Next
    \/ \E cfg \in JobConfigs : ProcessDataAsync(cfg)
    \/ \E lt \in BOOLEAN : RunImmediate(lt)

SpecAsync == Init /\ [][NextAsync]_vars

\* A batch next to direct calls.
NextBatch ==
    \/ Next
    \/ \E cfgs \in BatchInputs, lt \in BOOLEAN : ProcessBatch(cfgs, lt)
    \/ \E lt \in BOOLEAN : BatchResume(lt)

SpecBatch == Init /\ [][NextBatch]_vars

\* Status queries next to direct calls.
NextStatus ==
    \/ Next
    \/ \E id \in QueryIds : GetJobStatus(id)

SpecStatus == Init /\ [][NextStatus]_vars

\* The orchestrator's initialize to its end, next to direct calls.
NextInit ==
    \/ Next
    \/ \E agent \in {"dataLoader", "dataStructuring"}, ok \in BOOLEAN :
          AgentInitializeSettles(agent, ok)
    \/ InitializeSettles

SpecInit == Init /\ [][NextInit]_vars

\* History queries next to direct calls.
NextHistory ==
    \/ Next
    \/ GetJobHistory

SpecHistory == Init /\ [][NextHistory]_vars

\* A route of the server hands a job to processDataAsync; the server
\* listens only once its own initialize, which awaits the orchestrator's,
\* has resolved.
Request(cfg) ==
    /\ agentsReady
    /\ demoMode # "unset"
    /\ ProcessDataAsync(cfg)

\* The server: initialize, then requests.
NextServed ==
    \/ Setup
    \/ \E cfg \in JobConfigs : Request(cfg)
    \/ \E lt \in BOOLEAN : RunImmediate(lt)
    \/ JobStep

SpecServed == Init /\ [][NextServed]_vars
\* ---------------------------------------------------------------- strings
\* A string is the sequence of its characters.
LowerLetters ==
    <<"a", "b", "c", "d", "e", "f", "g", "h", "i", "j", "k", "l", "m",
      "n", "o", "p", "q", "r", "s", "t", "u", "v", "w", "x", "y", "z">>

UpperLetters ==
    <<"A", "B", "C", "D", "E", "F", "G", "H", "I", "J", "K", "L", "M",
      "N", "O", "P", "Q", "R", "S", "T", "U", "V", "W", "X", "Y", "Z">>

\* The letter of to at the position ch has in from; ch when it has none.
MapChar(from, to, ch) ==
    IF \E k \in 1..Len(from) : from[k] = ch
    THEN to[CHOOSE k \in 1..Len(from) : from[k] = ch]
    ELSE ch

toUpperCase(str) ==
    [k \in 1..Len(str) |-> MapChar(LowerLetters, UpperLetters, str[k])]

toLowerCase(str) ==
    [k \in 1..Len(str) |-> MapChar(UpperLetters, LowerLetters, str[k])]

\* String.prototype.includes
includes(str, word) ==
    \E k \in 0..(Len(str) - Len(word)) : SubSeq(str, k + 1, k + Len(word)) = word

\* String.prototype.replace with a string pattern: the first occurrence.
replace(str, pat, by) ==
    IF includes(str, pat)
    THEN LET k == CHOOSE i \in 0..(Len(str) - Len(pat)) :
                     /\ SubSeq(str, i + 1, i + Len(pat)) = pat
                     /\ \A m \in 0..(i - 1) : SubSeq(str, m + 1, m + Len(pat)) # pat
         IN  SubSeq(str, 1, k) \o by \o SubSeq(str, k + Len(pat) + 1, Len(str))
    ELSE str

W_id == <<"i", "d">>
W_name == <<"n", "a", "m", "e">>
W_type == <<"t", "y", "p", "e">>
W_status == <<"s", "t", "a", "t", "u", "s">>
W_date == <<"d", "a", "t", "e">>
W_time == <<"t", "i", "m", "e">>

\* ---------------------------------------------------- graph model compiler
\* GraphModelingAgent.mapToNeo4jType
mapToNeo4jType(dataType) ==
    CASE dataType = "string" -> "String"
      [] dataType = "number" -> "Float"
      [] dataType = "boolean" -> "Boolean"
      [] dataType = "date" -> "DateTime"
      [] dataType \in {"email", "url", "phone", "id"} -> "String"
      [] OTHER -> "String"

\* RELATES_TO_<SOURCE>_<TARGET>
generateRelationshipName(source, target) ==
    <<"R", "E", "L", "A", "T", "E", "S", "_", "T", "O", "_">>
        \o toUpperCase(source) \o <<"_">> \o toUpperCase(target)

commonWords == <<W_id, W_name, W_type, W_status, W_date, W_time>>

areColumnsRelated(col1, col2) ==
    LET lower1 == toLowerCase(col1)
        lower2 == toLowerCase(col2)
    IN  \E w \in 1..Len(commonWords) :
           LET word == commonWords[w]
           IN  \/ includes(lower1, word) /\ includes(lower2, word)
               \/ includes(lower1, word)
                    /\ includes(lower2, replace(word, W_id, W_name))
               \/ includes(lower1, word)
                    /\ includes(lower2, replace(word, W_name, W_id))

\* The pairs (i, j), i < j <= n, in the order of the nested loops.
ColumnPairs(n) ==
    LET all == [k \in 1..(n * n) |-> <<((k - 1) \div n) + 1, ((k - 1) % n) + 1>>]
        Before(pr) == pr[1] < pr[2]
    IN  SelectSeq(all, Before)

\* GraphModelingAgent.detectAdditionalRelationships
detectAdditionalRelationships(analysis) ==
    LET columns == analysis.columns
        Related(pr) == areColumnsRelated(columns[pr[1]], columns[pr[2]])
        hits == SelectSeq(ColumnPairs(Len(columns)), Related)
    IN  [k \in 1..Len(hits) |->
            LET col1 == columns[hits[k][1]]
                col2 == columns[hits[k][2]]
            IN  [name |-> <<"R", "E", "L", "A", "T", "E", "D", "_", "T", "O", "_">>
                            \o toUpperCase(col1) \o <<"_">> \o toUpperCase(col2),
                 source |-> col1, target |-> col2, type |-> "semantic",
                 properties |->
                     [confidence |-> [num |-> 3, den |-> 5],
                      description |-> [text |-> "Semantic relationship between",
                                       a |-> col1, b |-> col2]]]]

\* One node type of createGraphModel.
NodeTypeOf(entity) ==
    LET IsUnique(prop) == prop.unique
        uniques == SelectSeq(entity.properties, IsUnique)
    IN  [name |-> entity.name,
         properties |->
             [k \in 1..Len(entity.properties) |->
                 LET prop == entity.properties[k]
                 IN  [name |-> prop.name, type |-> mapToNeo4jType(prop.type),
                      indexed |-> ("identifier" \in prop.patterns) \/ prop.unique,
                      unique |-> prop.unique]],
         constraints |->
             [k \in 1..Len(uniques) |->
                 [type |-> "UNIQUE", property |-> uniques[k].name]]]

\* GraphModelingAgent.createGraphModel
createGraphModel(schema, relationships, analysis) ==
    [nodeTypes |-> [k \in 1..Len(schema.entities) |-> NodeTypeOf(schema.entities[k])],
     relationshipTypes |->
         [k \in 1..Len(relationships) |->
             LET rel == relationships[k]
             IN  [name |-> generateRelationshipName(rel.source, rel.target),
                  source |-> rel.source, target |-> rel.target,
                  type |-> rel.type,
                  properties |-> [confidence |-> rel.confidence,
                                  description |-> rel.description]]]
         \o detectAdditionalRelationships(analysis),
     constraints |-> <<>>,
     indexes |-> <<>>]


\* ------------------------------------------------------------ graph loader
MaxRuns == 1
BatchSize == 1000

C_id == <<"i", "d">>
C_mgr == <<"m", "g", "r">>
C_name == <<"n", "a", "m", "e">>
C_parent == <<"p", "a", "r", "e", "n", "t">>
C_child == <<"c", "h", "i", "l", "d">>

Property(name, type, patterns, unique) ==
    [name |-> name, type |-> type, patterns |-> patterns, unique |-> unique]

Relationship(type, source, target, num, den) ==
    [type |-> type, source |-> source, target |-> target,
     confidence |-> [num |-> num, den |-> den],
     description |-> [text |-> type, a |-> source, b |-> target]]

\* What execute receives from the structuring stage. structuredData is the
\* number of records and the column pairs that have a value in common.
GraphInput(rows, common, properties, relationships, columns) ==
    [structuredData |-> [rows |-> rows, common |-> common],
     schema |-> [entities |-> <<[name |-> "MainEntity", properties |-> properties]>>],
     relationships |-> relationships,
     analysis |-> [columns |-> columns]]

GraphInputs ==
    { GraphInput(0, {}, <<>>, <<>>, <<>>),
      GraphInput(1, {}, <<>>, <<>>, <<>>),
      GraphInput(BatchSize, {}, <<>>, <<>>, <<>>),
      GraphInput(3, {<<C_id, C_mgr>>},
                 <<Property(C_id, "number", {"identifier", "integer", "positive"}, TRUE),
                   Property(C_mgr, "number", {"integer", "positive"}, FALSE)>>,
                 <<Relationship("foreign_key", C_id, C_mgr, 1, 1)>>,
                 <<C_id, C_mgr>>),
      GraphInput(12, {},
                 <<Property(C_id, "id", {"identifier"}, TRUE),
                   Property(C_name, "string", {"name"}, TRUE)>>,
                 <<Relationship("foreign_key", C_id, C_name, 2, 3)>>,
                 <<C_id, C_name>>),
      GraphInput(2 * BatchSize + 1, {<<C_parent, C_child>>},
                 <<Property(C_parent, "number", {"integer"}, FALSE),
                   Property(C_child, "number", {"integer"}, FALSE)>>,
                 <<Relationship("foreign_key", C_parent, C_child, 2, 3),
                   Relationship("hierarchical", C_parent, C_child, 9, 10),
                   Relationship("temporal", C_parent, C_child, 7, 10)>>,
                 <<C_parent, C_child>>) }

\* What the store holds before the first job.
InitialStores == { EmptyStore, [nodes |-> 4, edges |-> 2, schema |-> 0] }

\* createConstraintsAndIndexes: per node type, its constraints and then its
\* indexed properties, one statement each.
StatementsOf(nodeType) ==
    LET IsIndexed(prop) == prop.indexed
        indexed == SelectSeq(nodeType.properties, IsIndexed)
    IN  [k \in 1..Len(nodeType.constraints) |->
            [kind |-> "constraint", label |-> nodeType.name,
             property |-> nodeType.constraints[k].property]]
        \o [k \in 1..Len(indexed) |->
            [kind |-> "index", label |-> nodeType.name,
             property |-> indexed[k].name]]

RECURSIVE ConstraintsAndIndexes(_)
ConstraintsAndIndexes(nodeTypes) ==
    IF nodeTypes = <<>> THEN <<>>
    ELSE StatementsOf(Head(nodeTypes)) \o ConstraintsAndIndexes(Tail(nodeTypes))

\* Variant: the last record of a batch is sent again as the first of the
\* next one.
NodeBatches_Overlap(rows) ==
    [k \in 1..((rows + BatchSize - 1) \div BatchSize) |->
        [kind |-> "nodes", lo |-> Max(1, (k - 1) * BatchSize),
         hi |-> Min(k * BatchSize, rows)]]

\* loadNodes: data.slice(i, i + batchSize) for i = 0, batchSize, ...
NodeBatches(rows) ==
    [k \in 1..((rows + BatchSize - 1) \div BatchSize) |->
        [kind |-> "nodes", lo |-> (k - 1) * BatchSize + 1,
         hi |-> Min(k * BatchSize, rows)]]

\* loadRelationships: one query per foreign_key type whose columns have a
\* common value, per hierarchical type and per temporal type; other types
\* are skipped.
IssuesQuery(relType, structuredData) ==
    \/ relType.type = "foreign_key"
         /\ <<relType.source, relType.target>> \in structuredData.common
    \/ relType.type \in {"hierarchical", "temporal"}

RelationshipQueries(structuredData, graphModel) ==
    LET Issued(relType) == IssuesQuery(relType, structuredData)
        types == SelectSeq(graphModel.relationshipTypes, Issued)
    IN  [k \in 1..Len(types) |->
            [kind |-> "relationship", type |-> types[k].type,
             name |-> types[k].name]]

\* analyzeGraph: statistics, relationship statistics, density, centrality.
AnalysisReads ==
    <<[kind |-> "read", query |-> "stats"], [kind |-> "read", query |-> "relStats"],
      [kind |-> "read", query |-> "density"], [kind |-> "read", query |-> "centrality"]>>

\* Variant: the nodes are loaded before the constraints and indexes.
StorePlan_NodesFirst(data, clear) ==
    LET graphModel == createGraphModel(data.schema, data.relationships, data.analysis)
    IN  (IF clear THEN <<[kind |-> "wipe"]>> ELSE <<>>)
        \o NodeBatches(data.structuredData.rows)
        \o ConstraintsAndIndexes(graphModel.nodeTypes)
        \o RelationshipQueries(data.structuredData, graphModel)
        \o AnalysisReads

\* The statements of the connected path of execute, in the order in which
\* the code issues them while none of the fatal ones fails.
StorePlan(data, clear) ==
    LET graphModel == createGraphModel(data.schema, data.relationships, data.analysis)
    IN  (IF clear THEN <<[kind |-> "wipe"]>> ELSE <<>>)
        \o ConstraintsAndIndexes(graphModel.nodeTypes)
        \o NodeBatches(data.structuredData.rows)
        \o RelationshipQueries(data.structuredData, graphModel)
        \o AnalysisReads


\* One invocation of execute: the statements of its connected path (plan),
\* the statement in flight (k; those up to k have been issued) and whether
\* each settled statement succeeded (oks).
NewRun(data, mode) ==
    [data |-> data, mode |-> mode, plan |-> <<>>, k |-> 0, oks |-> <<>>,
     nodeCount |-> 0, relationshipCount |-> 0,
     state |-> "running", outcome |-> Throw(NoError)]

Finish(run, out) == [run EXCEPT !.state = "done", !.outcome = out]

\* Variant: the wipe is decided before the demo mode is looked at.
GraphExecute_WipeFirst(data) ==
    /\ demoMode # "unset"
    /\ Len(runs) < MaxRuns
    /\ LET run == NewRun(data, demoMode)
       IN  runs' = Append(runs,
              IF data.structuredData.rows = 0
              THEN Finish(run, Throw("No structured data provided for graph modeling"))
              ELSE [run EXCEPT !.plan = StorePlan(data, clearExisting), !.k = 1])
    /\ UNCHANGED <<agentsReady, demoMode, agentStatus, currentJob, jobHistory,
                   proc, nextId, pending, subs, batch, query, clearExisting,
                   store, calc, init>>

\* GraphModelingAgent.execute up to its first store statement. The callers
\* of the repository await initialize before they submit (part_012), so the
\* mode has been decided; in demo mode the preview is returned at once.
GraphExecute(data) ==
    /\ demoMode # "unset"
    /\ Len(runs) < MaxRuns
    /\ LET run == NewRun(data, demoMode)
       IN  runs' = Append(runs,
              IF data.structuredData.rows = 0
              THEN Finish(run, Throw("No structured data provided for graph modeling"))
              ELSE IF demoMode = "demo"
              THEN Finish(run, Ok(generateDemoGraphData(data.structuredData.rows)))
              ELSE [run EXCEPT !.plan = StorePlan(data, clearExisting), !.k = 1])
    /\ UNCHANGED <<agentsReady, demoMode, agentStatus, currentJob, jobHistory,
                   proc, nextId, pending, subs, batch, query, clearExisting,
                   store, calc, init>>

\* The effect of a statement that succeeded. A node batch creates one node
\* per record; a relationship query stands for one created edge.
Apply(st, op) ==
    CASE op.kind = "wipe" -> [st EXCEPT !.nodes = 0, !.edges = 0]
      [] op.kind \in {"constraint", "index"} -> [st EXCEPT !.schema = @ + 1]
      [] op.kind = "nodes" -> [st EXCEPT !.nodes = @ + (op.hi - op.lo + 1)]
      [] op.kind = "relationship" -> [st EXCEPT !.edges = @ + 1]
      [] OTHER -> st

Count(run, op, ok) ==
    IF ok /\ op.kind = "nodes"
    THEN [run EXCEPT !.nodeCount = @ + (op.hi - op.lo + 1)]
    ELSE IF ok /\ op.kind = "relationship"
    THEN [run EXCEPT !.relationshipCount = @ + 1]
    ELSE run

LoadResult(run) ==
    [kind |-> "graph", demoMode |-> FALSE, edges |-> <<>>,
     totalNodes |-> run.nodeCount, totalEdges |-> run.relationshipCount]

\* The statement in flight of run r settles and execute continues up to its
\* next statement. A failure of a statement whose kind is in caught is
\* logged and execute goes on; any other failure leaves execute as its
\* error (the session is closed on the way out, nothing is undone).
Settle(r, ok, caught) ==
    /\ runs[r].state = "running"
    /\ LET run == runs[r]
           op == run.plan[run.k]
           run1 == [Count(run, op, ok) EXCEPT !.oks = Append(@, ok)]
       IN  /\ store' = IF ok THEN Apply(store, op) ELSE store
           /\ runs' = [runs EXCEPT ![r] =
                 IF ~ok /\ op.kind \notin caught
                 THEN Finish(run1, Throw("StoreError"))
                 ELSE IF run.k = Len(run.plan)
                 THEN Finish(run1, Ok(LoadResult(run1)))
                 ELSE [run1 EXCEPT !.k = @ + 1]]
    /\ UNCHANGED <<agentsReady, demoMode, agentStatus, currentJob, jobHistory,
                   proc, nextId, pending, subs, batch, query, clearExisting,
                   calc, init>>

\* Variant: a failed node batch is skipped and loading goes on.
StoreSettles_SkipBatch(r, ok) == Settle(r, ok, {"constraint", "index", "nodes"})

\* Variant: a failed relationship type is skipped and the next one is tried.
StoreSettles_SkipRelationship(r, ok) ==
    Settle(r, ok, {"constraint", "index", "relationship"})

\* Variant: a failed constraint statement is not caught.
StoreSettles_FatalConstraint(r, ok) == Settle(r, ok, {"index"})

\* createConstraintsAndIndexes catches the failure of each constraint and
\* of each index statement; loadNodes, loadRelationships, clearDatabase and
\* analyzeGraph catch nothing.
StoreSettles(r, ok) == Settle(r, ok, {"constraint", "index"})

InitGraph ==
    /\ Constructed
    /\ clearExisting \in BOOLEAN
    /\ store \in InitialStores
    /\ runs = <<>>
    /\ calc = NoCalc

\* The graph loader on its own: initialization, then execute invocations
\* whose store statements interleave.
NextGraph ==
    \/ Setup
    \/ \E data \in GraphInputs : GraphExecute(data)
    \/ \E r \in 1..Len(runs), ok \in BOOLEAN : StoreSettles(r, ok)

SpecGraph == InitGraph /\ [][NextGraph]_vars


\* ---------------------------------------------------- relationship detector
MaxRows == 3

\* null, and the undefined that reading a key a record lacks gives; the
\* other values are numbers above them.
Null == 0
Missing == -1

\* The values a column takes in the datasets examined here.
ColumnValues(col) ==
    CASE col = C_id -> {1, 2, 3, Null, Missing}
      [] col = C_mgr -> {1, 2, 4, Missing}
      [] col = C_name -> {1, Null}

DetectorColumns == <<C_id, C_mgr, C_name>>

\* The records of a cleaned dataset.
Records ==
    { rec \in [{C_id, C_mgr, C_name} -> {1, 2, 3, 4, Null, Missing}] :
         \A c \in DOMAIN rec : rec[c] \in ColumnValues(c) }

Range(seq) == { seq[k] : k \in 1..Len(seq) }

NoRelationship == [type |-> "none"]

\* Variant: an overlap of exactly one half is enough.
analyzeColumnRelationship_AtLeastHalf(data, col1, col2) ==
    LET set1 == { data[k][col1] : k \in 1..Len(data) } \ {Null}
        set2 == { data[k][col2] : k \in 1..Len(data) } \ {Null}
        intersection == { x \in set1 : x \in set2 }
        overlap == [num |-> Cardinality(intersection),
                    den |-> Min(Cardinality(set1), Cardinality(set2))]
    IN  IF Cardinality(intersection) > 0 /\ 2 * overlap.num >= overlap.den
        THEN [type |-> "foreign_key", source |-> col1, target |-> col2,
              confidence |-> overlap,
              description |-> [text |-> "Potential foreign key relationship between",
                               a |-> col1, b |-> col2]]
        ELSE NoRelationship

\* DataStructuringAgent.analyzeColumnRelationship: the values that are not
\* null (=== null; the undefined of a missing key stays) are put in two
\* Sets; overlap = |intersection| / min(|set1|, |set2|), kept as a fraction.
analyzeColumnRelationship(data, col1, col2) ==
    LET set1 == { data[k][col1] : k \in 1..Len(data) } \ {Null}
        set2 == { data[k][col2] : k \in 1..Len(data) } \ {Null}
        intersection == { x \in set1 : x \in set2 }
        overlap == [num |-> Cardinality(intersection),
                    den |-> Min(Cardinality(set1), Cardinality(set2))]
    IN  IF Cardinality(intersection) > 0 /\ 2 * overlap.num > overlap.den
        THEN [type |-> "foreign_key", source |-> col1, target |-> col2,
              confidence |-> overlap,
              description |-> [text |-> "Potential foreign key relationship between",
                               a |-> col1, b |-> col2]]
        ELSE NoRelationship

\* DataStructuringAgent.detectRelationships
detectRelationships(data, analysis) ==
    LET columns == analysis.columns
        pairs == ColumnPairs(Len(columns))
        found == [k \in 1..Len(pairs) |->
                     analyzeColumnRelationship(data, columns[pairs[k][1]],
                                               columns[pairs[k][2]])]
        IsRelationship(rel) == rel # NoRelationship
    IN  SelectSeq(found, IsRelationship)

\* One call of detectRelationships, on the cleaned dataset of the call
\* before extended by one record. The first record has every key: the
\* column list is its key list.
DetectRelationships(rec) ==
    /\ calc.fn \in {"none", "detectRelationships"}
    /\ LET data == IF calc = NoCalc THEN <<rec>> ELSE Append(calc.data, rec)
       IN  /\ Len(data) <= MaxRows
           /\ \A c \in DOMAIN data[1] : data[1][c] # Missing
           /\ calc' = [fn |-> "detectRelationships", data |-> data,
                       out |-> detectRelationships(data, [columns |-> DetectorColumns])]
    /\ UNCHANGED <<agentsReady, demoMode, agentStatus, currentJob, jobHistory,
                   proc, nextId, pending, subs, batch, query, clearExisting,
                   store, runs, init>>

NextDetect == \E rec \in Records : DetectRelationships(rec)

SpecDetect == Init /\ [][NextDetect]_vars


\* --------------------------------------------------------- column profiler
\* A finite float: its integer part and its first decimal (0 or 5).
Floats == { [int |-> i, frac |-> f] : i \in -1..2, f \in {0, 5} }

\* ['true', 'false', '1', '0', 'yes', 'no'].includes(String(val).toLowerCase()):
\* String of a number is "0" or "1" exactly for the numbers 0 and 1.
IsBooleanWord(val) == val.frac = 0 /\ val.int \in {0, 1}

\* !isNaN(Number(val)) && !isNaN(parseFloat(val)): true of every finite number.
IsNumeric(val) == TRUE

\* moment(value).isValid() accepts a finite number as a timestamp.
isValidDate(val) == TRUE

\* The string of a number has no '@' and is no URL.
isValidEmail(val) == FALSE
isValidURL(val) == FALSE

\* /^[\+]?[1-9][\d]{0,15}$/ on the string of the number.
isValidPhone(val) == val.frac = 0 /\ val.int >= 1

\* /^[A-Za-z0-9\-_]+$/ and more than 3 characters.
looksLikeID(val) == val.frac = 0 /\ (val.int >= 1000 \/ val.int <= -100)

\* DataStructuringAgent.detectDataType: the tests are made on the first 10
\* values, in this order; the first that all of them pass decides.
detectDataType(values) ==
    LET sample == SubSeq(values, 1, Min(10, Len(values)))
    IN  IF Len(values) = 0 THEN "unknown"
        ELSE IF (\A k \in 1..Len(sample) : IsBooleanWord(sample[k])) THEN "boolean"
        ELSE IF (\A k \in 1..Len(sample) : IsNumeric(sample[k])) THEN "number"
        ELSE IF (\A k \in 1..Len(sample) : isValidDate(sample[k])) THEN "date"
        ELSE IF (\A k \in 1..Len(sample) : isValidEmail(sample[k])) THEN "email"
        ELSE IF (\A k \in 1..Len(sample) : isValidURL(sample[k])) THEN "url"
        ELSE IF (\A k \in 1..Len(sample) : isValidPhone(sample[k])) THEN "phone"
        ELSE IF (\A k \in 1..Len(sample) : looksLikeID(sample[k])) THEN "id"
        ELSE "string"

\* One call of detectDataType, on the column of the call before extended by
\* one value.
DetectDataType(val) ==
    /\ calc.fn \in {"none", "detectDataType"}
    /\ LET values == IF calc = NoCalc THEN <<val>> ELSE Append(calc.values, val)
       IN  /\ Len(values) <= MaxRows
           /\ calc' = [fn |-> "detectDataType", values |-> values,
                       out |-> detectDataType(values)]
    /\ UNCHANGED <<agentsReady, demoMode, agentStatus, currentJob, jobHistory,
                   proc, nextId, pending, subs, batch, query, clearExisting,
                   store, runs, init>>

NextProfile == \E val \in Floats : DetectDataType(val)

SpecProfile == Init /\ [][NextProfile]_vars

\* ------------------------------------------------------ structuring stage
\* The values of a record are integers, Null, Missing (no such key) and,
\* after cleaning, the two booleans.
JsTrue == -2
JsFalse == -3

SampleLimit == 100

W_key == <<"k", "e", "y">>
W_email == <<"e", "m", "a", "i", "l">>
W_phone == <<"p", "h", "o", "n", "e">>
W_tel == <<"t", "e", "l">>
W_address == <<"a", "d", "d", "r", "e", "s", "s">>
W_url == <<"u", "r", "l">>
W_link == <<"l", "i", "n", "k">>
W_parent == <<"p", "a", "r", "e", "n", "t">>
W_child == <<"c", "h", "i", "l", "d">>

\* The integer v as the profiler sees a number.
NumberOf(v) == [int |-> v, frac |-> 0]

\* Object.keys(row): the columns of `order` that the record has, in order.
Keys(row, order) ==
    LET Has(c) == row[c] # Missing
    IN  SelectSeq(order, Has)

\* DataStructuringAgent.detectPatterns (the values are integers)
detectPatterns(columnName, values, dataType) ==
    LET lowerName == toLowerCase(columnName)
    IN  (IF includes(lowerName, W_id) \/ includes(lowerName, W_key)
         THEN {"identifier"} ELSE {})
        \cup (IF includes(lowerName, W_name) THEN {"name"} ELSE {})
        \cup (IF includes(lowerName, W_email) THEN {"email"} ELSE {})
        \cup (IF includes(lowerName, W_phone) \/ includes(lowerName, W_tel)
              THEN {"phone"} ELSE {})
        \cup (IF includes(lowerName, W_date) \/ includes(lowerName, W_time)
              THEN {"temporal"} ELSE {})
        \cup (IF includes(lowerName, W_address) THEN {"address"} ELSE {})
        \cup (IF includes(lowerName, W_url) \/ includes(lowerName, W_link)
              THEN {"url"} ELSE {})
        \cup (IF dataType = "number" THEN {"integer"} ELSE {})
        \cup (IF dataType = "number" /\ \A k \in 1..Len(values) : values[k] >= 0
              THEN {"positive"} ELSE {})

\* DataStructuringAgent.detectPotentialRelationships
detectPotentialRelationships(columnName, values, dataType) ==
    LET lowerName == toLowerCase(columnName)
    IN  (IF includes(lowerName, W_id) /\ dataType = "string"
         THEN <<[type |-> "foreign_key", confidence |-> [num |-> 8, den |-> 10],
                 description |-> "Potential foreign key reference"]>>
         ELSE <<>>)
        \o (IF includes(lowerName, W_parent) \/ includes(lowerName, W_child)
            THEN <<[type |-> "hierarchical", confidence |-> [num |-> 9, den |-> 10],
                    description |-> "Parent-child relationship"]>>
            ELSE <<>>)
        \o (IF dataType = "date" \/ includes(lowerName, W_date)
            THEN <<[type |-> "temporal", confidence |-> [num |-> 7, den |-> 10],
                    description |-> "Temporal relationship"]>>
            ELSE <<>>)

\* DataStructuringAgent.analyzeColumn
analyzeColumn(columnName, values) ==
    LET nonNullValues == values
        dataType == detectDataType([k \in 1..Len(nonNullValues) |->
                                       NumberOf(nonNullValues[k])])
    IN  [name |-> columnName,
         dataType |-> dataType,
         patterns |-> detectPatterns(columnName, nonNullValues, dataType),
         potentialRelationships |->
             detectPotentialRelationships(columnName, nonNullValues, dataType),
         uniqueValues |-> Cardinality(Range(nonNullValues))]

\* Variant: the whole dataset is profiled, not its first SampleLimit rows.
analyzeDataStructure_NoSample(data, order) ==
    LET columns == IF Len(data) = 0 THEN <<>> ELSE Keys(data[1], order)
        Present(val) == val # Null /\ val # Missing
    IN  [columns |-> columns,
         columnAnalysis |->
             [c \in Range(columns) |->
                 analyzeColumn(c, SelectSeq([k \in 1..Len(data) |-> data[k][c]],
                                            Present))],
         sampleSize |-> Len(data),
         totalRows |-> Len(data)]

\* DataStructuringAgent.analyzeDataStructure: the columns are the keys of
\* the first record; each is profiled on the values that the first
\* SampleLimit records have for it.
analyzeDataStructure(data, order) ==
    LET sampleSize == Min(SampleLimit, Len(data))
        sample == SubSeq(data, 1, sampleSize)
        columns == IF sampleSize = 0 THEN <<>> ELSE Keys(sample[1], order)
        Present(val) == val # Null /\ val # Missing
    IN  [columns |-> columns,
         columnAnalysis |->
             [c \in Range(columns) |->
                 analyzeColumn(c, SelectSeq([k \in 1..sampleSize |-> sample[k][c]],
                                            Present))],
         sampleSize |-> sampleSize,
         totalRows |-> Len(data)]

\* DataStructuringAgent.normalizeBoolean
normalizeBoolean(value) == IF value = 1 THEN JsTrue ELSE JsFalse

\* DataStructuringAgent.cleanValue (Number(value) of a number is the number)
cleanValue(value, columnAnalysis) ==
    IF value = Null \/ value = Missing THEN Null
    ELSE IF columnAnalysis.dataType = "boolean" THEN normalizeBoolean(value)
    ELSE value

\* DataStructuringAgent.cleanData: the entries of each record are cleaned;
\* a key the record does not have stays missing.
cleanData(data, analysis) ==
    [k \in 1..Len(data) |->
        [c \in DOMAIN data[k] |->
            IF data[k][c] = Missing THEN Missing
            ELSE cleanValue(data[k][c], analysis.columnAnalysis[c])]]

\* DataStructuringAgent.generateSchema
generateSchema(analysis, relationships) ==
    [entities |->
        <<[name |-> "MainEntity",
           properties |->
               [k \in 1..Len(analysis.columns) |->
                   LET col == analysis.columnAnalysis[analysis.columns[k]]
                   IN  Property(col.name, col.dataType, col.patterns,
                                col.uniqueValues = analysis.totalRows)]]>>,
     relationships |-> relationships,
     constraints |-> <<>>]

\* DataStructuringAgent.execute, with the schema of generateSchema (what
\* generateSchemaWithLLM returns unless the model's answer names entities
\* of its own).
DataStructuringAgentExecute(data, order) ==
    LET analysis == analyzeDataStructure(data, order)
        cleanedData == cleanData(data, analysis)
        relationships == detectRelationships(cleanedData, analysis)
    IN  [structuredData |-> cleanedData,
         schema |-> generateSchema(analysis, relationships),
         relationships |-> relationships,
         analysis |-> analysis]

C_hireDate == <<"h", "i", "r", "e", "D", "a", "t", "e">>

StructureColumns == <<C_parent, C_hireDate, C_mgr>>

StructureRecords == [Range(StructureColumns) -> {1, 2}]

\* DataStructuringAgent.execute on the dataset of the run before extended
\* by one record.
Structure(rec) ==
    /\ calc.fn \in {"none", "structure"}
    /\ LET data == IF calc = NoCalc THEN <<rec>> ELSE Append(calc.data, rec)
       IN  /\ Len(data) <= MaxRows
           /\ calc' = [fn |-> "structure", data |-> data,
                       out |-> DataStructuringAgentExecute(data, StructureColumns)]
    /\ UNCHANGED <<agentsReady, demoMode, agentStatus, currentJob, jobHistory,
                   proc, nextId, pending, subs, batch, query, clearExisting,
                   store, runs, init>>

NextStructure == \E rec \in StructureRecords : Structure(rec)

SpecStructure == Init /\ [][NextStructure]_vars

CompileColumns == <<C_id, C_mgr>>

CompileRecords == [Range(CompileColumns) -> {1, 2, 5}]

\* The structuring stage and the compiler run on the dataset of the run
\* before extended by one record.
Compile(rec) ==
    /\ calc.fn \in {"none", "compile"}
    /\ LET data == IF calc = NoCalc THEN <<rec>> ELSE Append(calc.data, rec)
           s == DataStructuringAgentExecute(data, CompileColumns)
       IN  /\ Len(data) <= MaxRows
           /\ calc' = [fn |-> "compile", data |-> data,
                       schema |-> s.schema,
                       relationships |-> s.relationships,
                       model |-> createGraphModel(s.schema, s.relationships,
                                                  s.analysis)]
    /\ UNCHANGED <<agentsReady, demoMode, agentStatus, currentJob, jobHistory,
                   proc, nextId, pending, subs, batch, query, clearExisting,
                   store, runs, init>>

NextCompile == \E rec \in CompileRecords : Compile(rec)

SpecCompile == Init /\ [][NextCompile]_vars


\* Datasets longer than the sample: record k has id k and, as mgr, the
\* values 1..period over and over.
MaxLongRows == 102

Periods == {1, 2, SampleLimit, SampleLimit + 1, SampleLimit + 2}

LongDataset(rows, period) ==
    [k \in 1..rows |-> (C_id :> k @@ C_mgr :> ((k - 1) % period) + 1)]

\* The structuring stage and the compiler run on the long dataset of the
\* run before extended by one record.
CompileLong(period) ==
    /\ calc.fn \in {"none", "compileLong"}
    /\ calc.fn = "compileLong" => period = calc.period
    /\ LET rows == IF calc = NoCalc THEN 1 ELSE calc.rows + 1
           s == DataStructuringAgentExecute(LongDataset(rows, period),
                                            CompileColumns)
       IN  /\ rows <= MaxLongRows
           /\ calc' = [fn |-> "compileLong", rows |-> rows, period |-> period,
                       schema |-> s.schema,
                       model |-> createGraphModel(s.schema, s.relationships,
                                                  s.analysis)]
    /\ UNCHANGED <<agentsReady, demoMode, agentStatus, currentJob, jobHistory,
                   proc, nextId, pending, subs, batch, query, clearExisting,
                   store, runs, init>>

NextCompileLong == \E period \in Periods : CompileLong(period)

SpecCompileLong == Init /\ [][NextCompileLong]_vars

\* ================================================================ claims
Jobs == 1..Len(jobHistory)
Terminal == {"completed", "failed"}
LastStep(job) == job.steps[Len(job.steps)]

\* C1 (as stated): a job's status starts as started and changes at most
\* once; once it is completed or failed it never changes again, also when a
\* stage or an observer of the orchestrator throws.
C1_StatusChangesOnce ==
    [][\A i \in Jobs :
          jobHistory[i].status \in Terminal
              => jobHistory'[i].status = jobHistory[i].status]_vars

\* C2: the steps of a job are dataLoading, dataStructuring, graphModeling in
\* that order; every step but the last is completed, so at most one step is
\* started; a stage that is awaited has its step record, started, as the
\* last step; and every stage was called with the result of the stage
\* before it (the first with the job's data source).
C2_StepsSequential ==
    \A i \in Jobs :
        LET job == jobHistory[i]
            p == proc[i]
            n == Len(job.steps)
        IN  /\ n >= 1 /\ n <= Len(StepNames)
            /\ \A k \in 1..n : job.steps[k].name = StepNames[k]
            /\ \A k \in 1..(n - 1) : job.steps[k].status = "completed"
            /\ Cardinality({k \in 1..n : job.steps[k].status = "started"}) <= 1
            /\ Len(p.inputs) <= n
            /\ p.pc \in {"dataLoading", "dataStructuring", "graphModeling"}
                  => /\ LastStep(job).name = p.pc
                     /\ LastStep(job).status = "started"
                     /\ Len(p.inputs) = n
            /\ \A k \in 1..Len(p.inputs) :
                  IF k = 1
                  THEN p.inputs[k] = job.config
                  ELSE /\ job.steps[k - 1].status = "completed"
                       /\ job.steps[k - 1].result # NoResult
                       /\ p.inputs[k] = job.steps[k - 1].result

\* C2 witness: the third stage of a job is awaited.
C2_Witness ==
    \E i \in Jobs :
        /\ proc[i].pc = "graphModeling"
        /\ Len(jobHistory[i].steps) = 3
        /\ Len(proc[i].inputs) = 3

\* C3: when agent.process of a stage rejects, the job is failed with the
\* error recorded, the running step is failed with an end time and the same
\* error, and no further stage is called; in every job a failed step is the
\* last step, belongs to a failed job, and all steps before it are completed;
\* no stage name occurs twice.
C3_StageFailureStopsJob ==
    \A i \in Jobs :
        LET job == jobHistory[i]
            p == proc[i]
            n == Len(job.steps)
        IN  /\ p.errFrom = "process"
                  => /\ p.pc \in {"emitJobFailed", "done"}
                     /\ job.status = "failed" /\ job.ended
                     /\ p.err # NoError /\ job.error = p.err
                     /\ LastStep(job).status = "failed"
                     /\ LastStep(job).ended
                     /\ LastStep(job).error = p.err
                     /\ Len(p.inputs) = n
            /\ \A k \in 1..n :
                  job.steps[k].status = "failed"
                      => /\ k = n
                         /\ job.status = "failed"
                         /\ job.steps[k].ended
                         /\ job.steps[k].error = job.error
                         /\ job.error # NoError
                         /\ \A m \in 1..(k - 1) : job.steps[m].status = "completed"
            /\ \A k, m \in 1..n : job.steps[k].name = job.steps[m].name => k = m

\* C3 witness: the second stage threw after the first had completed.
C3_Witness ==
    \E i \in Jobs :
        /\ proc[i].errFrom = "process"
        /\ proc[i].err = "No data provided for structuring"
        /\ Len(jobHistory[i].steps) = 2
        /\ jobHistory[i].steps[1].status = "completed"
        /\ jobHistory[i].steps[2].status = "failed"
        /\ proc[i].pc = "done"
\* C4 (as stated): processDataAsync returns the id of the job that the
\* submission creates.
C4_ReturnsOwnJobId ==
    \A n \in 1..Len(subs) :
        subs[n].job # NoJob => subs[n].returned = subs[n].job

\* C5: the jobs of a batch are created in array order, one per config, and
\* each is created only after the one before it has ended (completed or
\* failed, processData settled); two jobs of the batch are never started at
\* the same time.
C5_BatchSequential ==
    LET n == Len(batch.jobs)
    IN  /\ n <= Len(batch.configs)
        /\ \A m \in 1..n :
              /\ batch.jobs[m] \in Jobs
              /\ jobHistory[batch.jobs[m]].config = batch.configs[m]
        /\ \A m \in 1..(n - 1) :
              /\ batch.jobs[m] < batch.jobs[m + 1]
              /\ jobHistory[batch.jobs[m]].status \in Terminal
              /\ proc[batch.jobs[m]].pc = "done"
        /\ Cardinality({m \in 1..n :
                           jobHistory[batch.jobs[m]].status = "started"}) <= 1

\* C5 witness: the second job of a batch is running.
C5_Witness ==
    /\ Len(batch.jobs) = 2
    /\ jobHistory[batch.jobs[2]].status = "started"
    /\ jobHistory[batch.jobs[1]].status \in Terminal

Indices(list) == { list[k].index : k \in 1..Len(list) }
Increasing(list) ==
    \A k \in 1..(Len(list) - 1) : list[k].index < list[k + 1].index

\* C6: a batch never stops early: while it runs, the indices below the one
\* in progress are each in exactly one of results and errors; when it has
\* returned that holds for all n indices, results hold the completed jobs
\* with their results and errors the failed ones, both in increasing index
\* order, and summary.total = n = successful + failed.
C6_BatchAccountsForAll ==
    LET n == Len(batch.configs)
        settled == IF batch.state = "done" THEN n ELSE batch.i
    IN  /\ batch.state \in {"idle", "running", "done"}
        /\ Indices(batch.results) \cup Indices(batch.errors) = 0..(settled - 1)
        /\ Indices(batch.results) \cap Indices(batch.errors) = {}
        /\ Len(batch.results) + Len(batch.errors) = settled
        /\ Increasing(batch.results) /\ Increasing(batch.errors)
        /\ \A k \in 1..Len(batch.results) :
              LET job == jobHistory[batch.jobs[batch.results[k].index + 1]]
              IN  /\ job.status = "completed"
                  /\ batch.results[k].result = job.result
        /\ \A k \in 1..Len(batch.errors) :
              jobHistory[batch.jobs[batch.errors[k].index + 1]].status = "failed"
        /\ batch.state = "done"
              => /\ Len(batch.jobs) = n
                 /\ batch.summary.total = n
                 /\ batch.summary.successful = Len(batch.results)
                 /\ batch.summary.failed = Len(batch.errors)
                 /\ batch.summary.successful + batch.summary.failed = n

\* C6 witness: a batch of two has returned; its first job failed and its
\* second job completed.
C6_Witness ==
    /\ batch.state = "done"
    /\ Len(batch.configs) = 2
    /\ Indices(batch.errors) = {0}
    /\ Indices(batch.results) = {1}

\* C7: a getJobStatus call fails with not-found exactly when no job of the
\* history has the id asked for, reports the status of the job with that id
\* otherwise, and changes nothing of the orchestrator, the jobs or the agents.
C7_StatusLookup ==
    [][query' # query
          => /\ UNCHANGED orchState
             /\ query'.outcome \in {"found", "notFound"}
             /\ query'.outcome = "notFound"
                   <=> (\A k \in Jobs : jobHistory[k].id # query'.id)
             /\ query'.outcome = "found"
                   => \E k \in Jobs : /\ jobHistory[k].id = query'.id
                                      /\ jobHistory[k].status = query'.status
                                      /\ Len(jobHistory[k].steps) = query'.nsteps]_vars

\* C7 witness: with a job in the history, the id of a job that does not
\* exist yet was asked for.
C7_Witness ==
    /\ Len(jobHistory) = 1
    /\ query.outcome = "notFound"
    /\ query.id = generateJobId(1)

\* C8: when processData has settled, its caller has the job's result if and
\* only if the job is completed and an error if and only if the job is
\* failed; the result holds the results of the three steps.
C8_OutcomeMatchesStatus ==
    \A i \in Jobs :
        LET job == jobHistory[i]
            p == proc[i]
        IN  IF p.pc = "done"
            THEN /\ p.outcome \in {"result", "error"}
                 /\ job.status \in Terminal
                 /\ p.outcome = "result" <=> job.status = "completed"
                 /\ p.outcome = "error" <=> job.status = "failed"
                 /\ p.outcome = "error" => p.thrown # NoError
                 /\ p.outcome = "result"
                       => /\ p.returned = job.result
                          /\ Len(job.steps) = 3
                          /\ p.returned.dataLoading = job.steps[1].result
                          /\ p.returned.dataStructuring = job.steps[2].result
                          /\ p.returned.graphModeling = job.steps[3].result
            ELSE p.outcome = "pending"

\* C8 witness: an observer of jobCompleted threw: the caller got an error and
\* the job, all of whose steps completed, is failed.
C8_Witness ==
    \E i \in Jobs :
        /\ proc[i].pc = "done"
        /\ proc[i].outcome = "error"
        /\ Len(jobHistory[i].steps) = 3
        /\ jobHistory[i].steps[3].status = "completed"
        /\ jobHistory[i].status = "failed"

ZeroRows(job) == job.config.kind = "data" /\ job.config.ds.rows = 0
NoColumns(job) ==
    job.config.kind = "data" /\ job.config.ds.rows > 0 /\ ~job.config.ds.cols

\* C9: a job whose dataset has zero rows is never completed and never gets
\* past the structuring stage; once processData has settled the job is
\* failed and the caller has an error; and when the structuring stage ran,
\* the error recorded is the no-data input error (unless an observer threw
\* while the stage's failure was being reported).
C9_ZeroRowsFail ==
    \A i \in Jobs :
        ZeroRows(jobHistory[i])
            => LET job == jobHistory[i]
                   p == proc[i]
               IN  /\ job.status # "completed"
                   /\ Len(job.steps) <= 2
                   /\ p.pc = "done"
                         => job.status = "failed" /\ p.outcome = "error"
                   /\ (Len(job.steps) = 2 /\ p.errFrom = "process"
                          /\ p.err # "ListenerError")
                         => /\ job.error = "No data provided for structuring"
                            /\ job.steps[2].error = "No data provided for structuring"
                   /\ (Len(job.steps) = 2 /\ p.pc \in {"emitJobFailed", "done"})
                         => job.status = "failed"

\* C9 witness: the run for a zero-row dataset has failed in the structuring
\* stage with the input error.
C9_Witness ==
    \E i \in Jobs :
        /\ ZeroRows(jobHistory[i])
        /\ proc[i].pc = "done"
        /\ jobHistory[i].error = "No data provided for structuring"
        /\ jobHistory[i].steps[1].status = "completed"

\* C10 (as stated): a job whose dataset has rows but no columns fails and is
\* never completed.
C10_NoColumnsRejected ==
    \A i \in Jobs :
        NoColumns(jobHistory[i]) => jobHistory[i].status # "completed"

\* ------------------------------------------------- claims on the loader
Runs == 1..Len(runs)
Connected(run) == run.mode = "connected" /\ run.data.structuredData.rows > 0
KindsAt(run, kinds) == {j \in 1..run.k : run.plan[j].kind \in kinds}
ModelOf(run) ==
    createGraphModel(run.data.schema, run.data.relationships, run.data.analysis)

\* C11: when the connectivity check of initialize failed, every later
\* execute on a non-empty dataset of N records returns (it never throws, and
\* issues no store statement) a result with demoMode true, N nodes when
\* N <= 10 and 10 otherwise, and e edges where e = nodes - 1 when that is at
\* most 5 and 5 otherwise; edge i goes from node i to node i + 1.
C11_DemoFallback ==
    \A r \in Runs :
        LET run == runs[r]
            N == run.data.structuredData.rows
            res == run.outcome.value
        IN  (run.mode = "demo" /\ N > 0)
               => /\ run.state = "done" /\ run.outcome.ok
                  /\ run.k = 0
                  /\ res.demoMode
                  /\ res.totalNodes = (IF N <= 10 THEN N ELSE 10)
                  /\ res.totalEdges = (IF res.totalNodes - 1 <= 5
                                       THEN res.totalNodes - 1 ELSE 5)
                  /\ Len(res.edges) = res.totalEdges
                  /\ \A i \in 1..Len(res.edges) :
                        /\ res.edges[i].from = i - 1
                        /\ res.edges[i].to = res.edges[i].from + 1
                        /\ res.edges[i].to < res.totalNodes

\* C11 witness: a demo run on 12 records returned 10 nodes and 5 edges.
C11_Witness ==
    \E r \in Runs :
        /\ runs[r].mode = "demo" /\ runs[r].state = "done"
        /\ runs[r].data.structuredData.rows = 12
        /\ runs[r].outcome.value.totalNodes = 10
        /\ runs[r].outcome.value.totalEdges = 5

\* C12: in connected mode the statements of one run are issued one at a
\* time in the order wipe, constraints and indexes, node batches,
\* relationship queries; a node batch is issued only when every constraint
\* and index statement of the model has been attempted and has settled, and
\* a relationship query only when every node batch has succeeded.
C12_StoreOrder ==
    \A r \in Runs :
        LET run == runs[r]
            schemaOps == ConstraintsAndIndexes(ModelOf(run).nodeTypes)
            batches == NodeBatches(run.data.structuredData.rows)
        IN  Connected(run) =>
              /\ Len(run.oks) >= run.k - 1
              /\ \A j \in KindsAt(run, {"wipe"}) : j = 1
              /\ \A j \in KindsAt(run, {"constraint", "index"}) :
                    \A m \in 1..(j - 1) :
                        run.plan[m].kind \in {"wipe", "constraint", "index"}
              /\ \A j \in KindsAt(run, {"nodes"}) :
                    /\ Cardinality({m \in 1..(j - 1) :
                           run.plan[m].kind \in {"constraint", "index"}})
                         = Len(schemaOps)
                    /\ \A m \in 1..(j - 1) :
                           /\ run.plan[m].kind \notin {"relationship", "read"}
                           /\ m <= Len(run.oks)
              /\ \A j \in KindsAt(run, {"relationship"}) :
                    /\ Cardinality({m \in 1..(j - 1) :
                           run.plan[m].kind = "nodes" /\ run.oks[m]})
                         = Len(batches)
                    /\ \A m \in 1..(j - 1) : run.plan[m].kind # "read"

\* C12 witness: a run with a wipe, statements, three node batches and a
\* relationship query in flight.
C12_Witness ==
    \E r \in Runs :
        /\ clearExisting
        /\ runs[r].state = "running"
        /\ runs[r].plan[runs[r].k].kind = "relationship"
        /\ Cardinality(KindsAt(runs[r], {"nodes"})) = 3

\* C13: a wipe is issued only by a run in connected mode with clearExisting
\* configured, and a run in demo mode issues no store statement at all.
C13_WipeOnlyWhenConfigured ==
    \A r \in Runs :
        LET run == runs[r]
        IN  /\ run.mode = "demo" => run.k = 0 /\ run.plan = <<>>
            /\ KindsAt(run, {"wipe"}) # {}
                  => clearExisting /\ run.mode = "connected"

\* C13 witness: with clearExisting configured a demo run has returned and
\* the data that was in the store is still there.
C13_Witness ==
    \E r \in Runs :
        /\ clearExisting
        /\ runs[r].mode = "demo" /\ runs[r].state = "done" /\ runs[r].outcome.ok
        /\ store.nodes > 0

\* The step settles the statement in flight of run r as a failure.
FailsNow(r, kind) ==
    /\ runs[r].state = "running"
    /\ runs[r].plan[runs[r].k].kind = kind
    /\ Len(runs'[r].oks) = Len(runs[r].oks) + 1
    /\ ~runs'[r].oks[Len(runs'[r].oks)]

\* The step ends run r with an error, issues nothing more for it and leaves
\* the store as it is.
AbortsNow(r) ==
    /\ runs'[r].state = "done" /\ ~runs'[r].outcome.ok
    /\ runs'[r].k = runs[r].k
    /\ store' = store

\* C14: when the write of a node batch fails the run ends with an error:
\* the batch is not issued again, no later batch and no relationship query
\* is issued (a run that has ended issues nothing), and the store keeps what
\* it held (nothing is rolled back).
C14_NodeBatchFailure ==
    [][\A r \in Runs :
          /\ FailsNow(r, "nodes") => AbortsNow(r)
          /\ runs[r].state = "done" => runs'[r] = runs[r]]_vars

\* C14 witness: the second of three batches failed; the nodes of the first
\* are in the store.
C14_Witness ==
    \E r \in Runs :
        LET run == runs[r]
        IN  /\ run.state = "done" /\ ~run.outcome.ok /\ run.k >= 1
            /\ run.plan[run.k].kind = "nodes" /\ run.plan[run.k].lo = BatchSize + 1
            /\ run.nodeCount = BatchSize
            /\ store.nodes >= BatchSize

\* C15: a failed constraint or index statement does not end the run: the
\* next statement is issued, and a run ends with an error only when a
\* statement of another kind has failed.
C15_ConstraintFailureSwallowed ==
    \A r \in Runs :
        LET run == runs[r]
        IN  /\ \A j \in 1..Len(run.oks) :
                  (run.plan[j].kind \in {"constraint", "index"} /\ ~run.oks[j])
                     => /\ run.k > j
                        /\ run.plan[j + 1].kind \in {"constraint", "index", "nodes"}
            /\ (Connected(run) /\ run.state = "done" /\ ~run.outcome.ok)
                  => /\ run.k = Len(run.oks)
                     /\ ~run.oks[run.k]
                     /\ run.plan[run.k].kind \notin {"constraint", "index"}

\* C15 witness: every constraint and index statement of a run failed and
\* the run returned its load result.
C15_Witness ==
    \E r \in Runs :
        LET run == runs[r]
            failed == {j \in 1..Len(run.oks) : ~run.oks[j]}
        IN  /\ run.state = "done" /\ run.outcome.ok
            /\ Cardinality(failed) = 4
            /\ \A j \in failed : run.plan[j].kind \in {"constraint", "index"}
            /\ run.nodeCount = 12

\* C16: when the query of one relationship type fails the run ends with an
\* error, no later relationship type is issued, and the store keeps the
\* nodes and edges created so far.
C16_RelationshipFailure ==
    [][\A r \in Runs :
          /\ FailsNow(r, "relationship") => AbortsNow(r)
          /\ (runs[r].state = "done" /\ ~runs[r].outcome.ok)
                => runs'[r].k = runs[r].k]_vars

\* C16 witness: the first relationship type was materialized, the second
\* failed, the third was never issued.
C16_Witness ==
    \E r \in Runs :
        LET run == runs[r]
        IN  /\ run.state = "done" /\ ~run.outcome.ok
            /\ run.k >= 1 /\ run.k < Len(run.plan)
            /\ run.plan[run.k].kind = "relationship"
            /\ run.plan[run.k + 1].kind = "relationship"
            /\ run.relationshipCount = 1
            /\ store.edges >= 1 /\ store.nodes >= run.nodeCount

\* ------------------------------------------------ claims on the detector
\* The values of a column that are not null, as the detector collects them.
ValueSet(data, col) == { data[k][col] : k \in 1..Len(data) } \ {Null}

UnorderedPairs ==
    { pr \in SUBSET Range(DetectorColumns) : Cardinality(pr) = 2 }

CandidatesFor(out, pr) ==
    { k \in 1..Len(out) :
        out[k].type = "foreign_key" /\ {out[k].source, out[k].target} = pr }

\* C17: for every unordered pair of distinct columns with value sets S1 and
\* S2 (the values that are not null): when the intersection is empty or
\* |S1 n S2| / min(|S1|, |S2|) <= 1/2 the result has no foreign_key candidate
\* for the pair, otherwise it has exactly one, whose confidence equals that
\* ratio and so lies in (1/2, 1]; the result has nothing else.
C17_ForeignKeyThreshold ==
    calc.fn = "detectRelationships" =>
        /\ \A pr \in UnorderedPairs :
              LET a == CHOOSE c \in pr : TRUE
                  b == CHOOSE c \in pr : c # a
                  S1 == ValueSet(calc.data, a)
                  S2 == ValueSet(calc.data, b)
                  common == Cardinality(S1 \cap S2)
                  least == IF Cardinality(S1) <= Cardinality(S2)
                           THEN Cardinality(S1) ELSE Cardinality(S2)
                  cands == CandidatesFor(calc.out, pr)
              IN  IF common = 0 \/ 2 * common <= least
                  THEN cands = {}
                  ELSE /\ Cardinality(cands) = 1
                       /\ \A k \in cands :
                            LET conf == calc.out[k].confidence
                            IN  /\ conf.num * least = common * conf.den
                                /\ 2 * conf.num > conf.den
                                /\ conf.num <= conf.den
        /\ \A k \in 1..Len(calc.out) :
              \E pr \in UnorderedPairs : k \in CandidatesFor(calc.out, pr)

\* C17 witness: the pair (id, mgr) overlaps in 2 of 3 values, no key is
\* missing, and the result has its candidate and one for another pair.
C17_Witness ==
    /\ calc.fn = "detectRelationships"
    /\ Len(calc.out) >= 2
    /\ \E k \in 1..Len(calc.out) :
          /\ calc.out[k].confidence = [num |-> 2, den |-> 3]
          /\ Missing \notin ValueSet(calc.data, calc.out[k].source)
          /\ Missing \notin ValueSet(calc.data, calc.out[k].target)

\* ------------------------------------------------ claims on the profiler
\* C18 (as stated): a column in which every value is a finite float is
\* given the type number, whatever the values are.
C18_FloatsAreNumber ==
    (calc.fn = "detectDataType"
       /\ \A k \in 1..Len(calc.values) : calc.values[k] \in Floats)
        => calc.out = "number"

\* The events of invocation i from position n on.
EventsFrom(i, n) == { proc[i].events[m] : m \in n..Len(proc[i].events) }

\* The position of the agentStatusChange 'processing' of step k of job i
\* (0 when there is none): the k-th such event of the invocation.
RECURSIVE StartedAt(_, _, _)
StartedAt(i, k, n) ==
    IF n > Len(proc[i].events) THEN 0
    ELSE IF proc[i].events[n].ev = "agentStatusChange"
            /\ proc[i].events[n].status = "processing"
         THEN IF k = 1 THEN n ELSE StartedAt(i, k - 1, n + 1)
         ELSE StartedAt(i, k, n + 1)

\* Step k of job i has had the event its transitions call for: a started
\* step the agentStatusChange 'processing' of its agent; a completed one,
\* after that, stepCompleted with its name (once the segment that marks it
\* has emitted); a failed one, after that, jobFailed (once the catch block
\* has emitted).
StepAnnounced(i, k) ==
    LET step == jobHistory[i].steps[k]
        n == StartedAt(i, k, 1)
    IN  /\ n > 0
        /\ proc[i].events[n].agent = AgentOf(step.name)
        /\ (step.status = "completed"
               /\ ~(proc[i].pc = "emitStepCompleted"
                     /\ k = Len(jobHistory[i].steps)))
              => [ev |-> "stepCompleted", step |-> step.name]
                     \in EventsFrom(i, n + 1)
        /\ (step.status = "failed" /\ proc[i].pc # "emitJobFailed")
              => [ev |-> "jobFailed"] \in EventsFrom(i, n + 1)

\* C20: every step transition of a job is followed by an event of the
\* orchestrator: the start of a step by the agentStatusChange 'processing'
\* of its agent, its completion by stepCompleted, its failure by jobFailed.
C20_StepTransitionsAnnounced ==
    \A i \in 1..Len(jobHistory) :
        \A k \in 1..Len(jobHistory[i].steps) : StepAnnounced(i, k)

\* A job whose first step completed and whose second failed, each with its
\* events, next to a job that is still in its first step.
C20_Witness ==
    \E i, j \in 1..Len(jobHistory) :
        /\ Len(jobHistory[i].steps) = 2
        /\ jobHistory[i].steps[1].status = "completed"
        /\ jobHistory[i].steps[2].status = "failed"
        /\ proc[i].pc = "done"
        /\ [ev |-> "agentStatusChange", agent |-> AgentOf(StepNames[2]),
            status |-> "error"] \in EventsFrom(i, 1)
        /\ jobHistory[j].steps[1].status = "started"

\* C21: what a run has written stays its own while it runs: during a stage
\* of job i, the orchestrator's currentJob is job i and the status of the
\* stage's agent is the 'processing' that the stage set, whatever another
\* run does in between.
C21_RunsShareNoState ==
    \A i \in 1..Len(jobHistory) :
        proc[i].pc \in Range(StepNames)
            => /\ currentJob = jobHistory[i].id
               /\ agentStatus[AgentOf(proc[i].pc)] = "processing"

\* C22: the history only grows, by one job at a time at its end, and the
\* jobs in it keep their places; its jobs are the jobs created, each once,
\* in creation order; a call of getJobHistory leaves the history as it is
\* and returns one summary per job, in that order, with the job's id,
\* status and error.
C22_HistoryAppendOnly ==
    [][ /\ Len(jobHistory') \in {Len(jobHistory), Len(jobHistory) + 1}
        /\ \A i \in 1..Len(jobHistory) : jobHistory'[i].id = jobHistory[i].id
        /\ Len(jobHistory') = nextId'
        /\ \A i \in 1..Len(jobHistory') :
               jobHistory'[i].id = generateJobId(i - 1)
        /\ (calc' # calc) =>
               /\ jobHistory' = jobHistory
               /\ Len(calc'.out) = Len(jobHistory)
               /\ \A i \in 1..Len(jobHistory) :
                      /\ calc'.out[i].id = jobHistory[i].id
                      /\ calc'.out[i].status = jobHistory[i].status
                      /\ calc'.out[i].error = jobHistory[i].error
      ]_vars

\* getJobHistory has returned the summaries of a failed job followed by a
\* job that is still running.
C22_Witness ==
    /\ calc.fn = "getJobHistory"
    /\ Len(calc.out) = 2
    /\ calc.out[1].status = "failed"
    /\ calc.out[2].status = "started"
    /\ Len(jobHistory) = 2

\* The dataset [{id:1,mgr:5},{id:2,mgr:1},{id:5,mgr:5}].
ManagersDataset ==
    << (C_id :> 1 @@ C_mgr :> 5), (C_id :> 2 @@ C_mgr :> 1),
       (C_id :> 5 @@ C_mgr :> 5) >>

\* C23 (as stated): for the dataset of managers the compiled model has one
\* node type with the two properties id and mgr, both indexed, and one
\* relationship type.
C23_ManagersModel ==
    (calc.fn = "compile" /\ calc.data = ManagersDataset)
        => /\ Len(calc.model.nodeTypes) = 1
           /\ Len(calc.model.nodeTypes[1].properties) = 2
           /\ \A k \in 1..2 : calc.model.nodeTypes[1].properties[k].indexed
           /\ Len(calc.model.relationshipTypes) = 1

\* The positions of the node batches in the plan of a run.
NodeOps(run) == { j \in 1..Len(run.plan) : run.plan[j].kind = "nodes" }

\* The records created by the node batches of a run that have succeeded.
RECURSIVE CreatedUpTo(_, _)
CreatedUpTo(run, j) ==
    IF j = 0 THEN 0
    ELSE CreatedUpTo(run, j - 1)
         + (IF j \in NodeOps(run) /\ run.oks[j]
            THEN run.plan[j].hi - run.plan[j].lo + 1 ELSE 0)

\* C24: the node batches of a connected run over N records are consecutive
\* statements that cut the dataset, in its order, into ceil(N / 1000)
\* slices of at most 1000 records (every record in exactly one slice), and
\* the run's node count is the sum of what the batches that succeeded
\* created: N in the result of a run that succeeds.
C24_NodeBatching ==
    \A r \in Runs :
        LET run == runs[r]
            N == run.data.structuredData.rows
            ops == NodeOps(run)
            first == CHOOSE j \in ops : \A m \in ops : j <= m
            last == CHOOSE j \in ops : \A m \in ops : j >= m
        IN  (Connected(run) /\ run.plan # <<>>) =>
              /\ ops = first..last
              /\ BatchSize * Cardinality(ops) >= N
              /\ BatchSize * (Cardinality(ops) - 1) < N
              /\ run.plan[first].lo = 1
              /\ run.plan[last].hi = N
              /\ \A j \in ops :
                    /\ run.plan[j].hi - run.plan[j].lo + 1 \in 1..BatchSize
                    /\ j < last => run.plan[j + 1].lo = run.plan[j].hi + 1
              /\ run.nodeCount = CreatedUpTo(run, Len(run.oks))
              /\ (run.state = "done" /\ run.outcome.ok)
                    => run.outcome.value.totalNodes = N

\* A run over 2 * 1000 + 1 records has succeeded with three batches and
\* returned that many nodes.
C24_Witness ==
    \E r \in Runs :
        LET run == runs[r]
        IN  /\ Connected(run)
            /\ run.data.structuredData.rows = 2 * BatchSize + 1
            /\ Cardinality(NodeOps(run)) = 3
            /\ run.state = "done" /\ run.outcome.ok
            /\ run.outcome.value.totalNodes = 2 * BatchSize + 1

\* A candidate of the given type and confidence that names column c.
HasCandidate(relationships, kind, num, den, c) ==
    \E k \in 1..Len(relationships) :
        /\ relationships[k].type = kind
        /\ relationships[k].confidence.num * den
             = num * relationships[k].confidence.den
        /\ c \in {relationships[k].source, relationships[k].target}

\* C25 (as stated): the relationships returned by the structuring stage,
\* which are those of its schema, hold a hierarchical candidate of
\* confidence 0.9 for every column named after parent or child and a
\* temporal candidate of confidence 0.7 for every column typed or named as
\* a date.
C25_HeuristicCandidates ==
    calc.fn = "structure" =>
        /\ calc.out.schema.relationships = calc.out.relationships
        /\ \A k \in 1..Len(calc.out.analysis.columns) :
              LET c == calc.out.analysis.columns[k]
                  lowerName == toLowerCase(c)
              IN  /\ (includes(lowerName, W_parent) \/ includes(lowerName, W_child))
                        => HasCandidate(calc.out.relationships,
                                        "hierarchical", 9, 10, c)
                  /\ (calc.out.analysis.columnAnalysis[c].dataType = "date"
                        \/ includes(lowerName, W_date))
                        => HasCandidate(calc.out.relationships,
                                        "temporal", 7, 10, c)

\* The dataset with null written in for every key that a record lacks.
MissingAsNull(data) ==
    [k \in 1..Len(data) |->
        [c \in DOMAIN data[k] |->
            IF data[k][c] = Missing THEN Null ELSE data[k][c]]]

\* C26 (as stated): a key that a record lacks counts as null in relationship
\* detection: the candidates and their confidences are those of the dataset
\* with null in the place of every missing key.
C26_MissingTreatedAsNull ==
    calc.fn = "detectRelationships" =>
        calc.out = detectRelationships(MissingAsNull(calc.data),
                                       [columns |-> DetectorColumns])

\* The graph stage of job i settles in this step.
GraphStageSettles(i) ==
    /\ proc[i].pc = "graphModeling"
    /\ proc'[i].pc # "graphModeling"

\* C27: once the connectivity check has decided the loader's mode no step
\* changes it, and the graph stage of every job runs in that mode: in demo
\* mode it returns the preview (it fails only on a throwing observer); in
\* connected mode it returns a result of the store or fails the job, and
\* never returns the preview.
C27_ModeDecidedOnce ==
    [][ /\ demoMode # "unset" => demoMode' = demoMode
        /\ \A i \in 1..Len(jobHistory) :
              GraphStageSettles(i) =>
                 LET step == jobHistory'[i].steps[3]
                 IN  /\ step.status \in {"completed", "failed"}
                     /\ step.status = "completed"
                          => step.result.demoMode = (demoMode = "demo")
                     /\ step.status = "failed"
                          => /\ jobHistory'[i].status = "failed"
                             /\ step.error \in
                                  (IF demoMode = "demo" THEN {"ListenerError"}
                                   ELSE {"ListenerError", "StoreError"})
      ]_vars

\* With a connected loader, one job has completed on the store and a later
\* one has failed on a store error.
C27_Witness ==
    /\ demoMode = "connected"
    /\ Len(jobHistory) = 2
    /\ jobHistory[1].status = "completed"
    /\ ~jobHistory[1].steps[3].result.demoMode
    /\ Len(jobHistory[2].steps) = 3
    /\ jobHistory[2].steps[3].status = "failed"
    /\ jobHistory[2].steps[3].error = "StoreError"

\* The events of invocation i with one of the given names, in order.
EventsNamed(i, names) ==
    LET Named(e) == e.ev \in names
    IN  SelectSeq(proc[i].events, Named)

\* C28 (as stated): a job that has ended has had exactly one terminal
\* event, the last of its events: jobCompleted when its status is completed
\* and jobFailed when it is failed; a completed job has had the three
\* stepCompleted events in the order of the stages.
C28_OneTerminalEvent ==
    \A i \in 1..Len(jobHistory) :
        proc[i].pc = "done" =>
            LET terminal == EventsNamed(i, {"jobCompleted", "jobFailed"})
                steps == EventsNamed(i, {"stepCompleted"})
            IN  /\ Len(terminal) = 1
                /\ proc[i].events[Len(proc[i].events)] = terminal[1]
                /\ jobHistory[i].status = "completed"
                     => /\ terminal[1].ev = "jobCompleted"
                        /\ steps = [k \in 1..3 |->
                                      [ev |-> "stepCompleted", step |-> StepNames[k]]]
                /\ jobHistory[i].status = "failed"
                     => terminal[1].ev = "jobFailed"

\* C29 (as stated): when the initialize() of the DataLoader or of the
\* DataStructuring agent has rejected, the orchestrator's initialize does
\* not resolve and 'initialized' is not emitted; when both have fulfilled
\* it resolves once the GraphModeling agent has settled, in demo mode too.
C29_InitializeFails ==
    /\ "rejected" \in {init.dataLoader, init.dataStructuring}
         => init.state # "resolved" /\ ~init.emitted
    /\ init.state = "resolved"
         => /\ init.dataLoader = "fulfilled"
            /\ init.dataStructuring = "fulfilled"
            /\ demoMode \in {"demo", "connected"}
            /\ init.emitted

====
